---- MODULE Spec2Model ----
(***************************************************************************)
(* Model of propane_core/src/adb.rs (abstract schema, deferred-type        *)
(* resolution, schema diff) and of the migrate command of                  *)
(* butane_cli/src/main.rs.                                                 *)
(*                                                                         *)
(* A HashSet<ATable> / HashSet<AColumn> whose Hash and Eq look at the name *)
(* only is modelled as a function from names to values: it can never hold  *)
(* two elements of one name, and lookup is by name.  The iteration order   *)
(* of a HashSet is arbitrary but fixed for an unmodified set; it is        *)
(* modelled as a permutation of the name universe chosen per set.          *)
(***************************************************************************)
EXTENDS Integers, Sequences, FiniteSets, TLC

VARIABLES
    prog,        \* which entry point this run executes
    pc,          \* position inside the entry point
    old, new,    \* diff: the two ADB snapshots
    ops,         \* diff: the returned Vec<Operation>
    adb,         \* resolve_types: self.tables
    adb0,        \* resolve_types: self.tables at entry (history)
    types,       \* TypeResolver.types
    changed,     \* resolve_types: local `changed`
    todo,        \* resolve_types: tables the for loop has not visited yet
    call,        \* TypeResolver::insert: arguments of the outermost call
    depth,       \* TypeResolver::insert: number of live insert frames
    ret,         \* TypeResolver::insert: value returned by the outermost call
    chain,       \* migrate: number of migrations in the store's creation chain
    to_apply,    \* migrate: the unapplied list
    idx,         \* migrate: position of the for loop in to_apply
    applied,     \* migrate: migrations marked applied in the store
    attempted,   \* migrate: migrations on which apply was called, in order
    result,      \* migrate: Result<()> handed to handle_error
    exit_code,   \* process exit status
    stderr       \* what handle_error printed

vars == <<prog, pc, old, new, ops, adb, adb0, types, changed, todo, call, depth,
          ret, chain, to_apply, idx, applied, attempted, result, exit_code, stderr>>

----------------------------------------------------------------------------
(* Bounds *)

\* total number of columns in one snapshot given to diff
MaxColumns == 3
\* number of insert frames the stack holds before it overflows
MaxStack == 3
\* number of migrations in the creation chain
MaxMigrations == 3

None == "None"

\* no insert call made yet
NoCall == [fn |-> "none", key |-> "", ty |-> ""]

\* Result<()> of migrate
NoResult == [tag |-> "None", cause |-> 0]
Ok == [tag |-> "Ok", cause |-> 0]
Err(cause) == [tag |-> "Err", cause |-> cause]

----------------------------------------------------------------------------
(* Data model *)

\* DeferredSqlType::Known(t)
Known(t) == [kind |-> "Known", of |-> t]

\* DeferredSqlType::Deferred(TypeKey::PK(table))
Deferred(table) == [kind |-> "Deferred", of |-> table]

\* AColumn::new
AColumn(name, sqltype, nullable, pk, default) ==
    [name |-> name, sqltype |-> sqltype, nullable |-> nullable, pk |-> pk,
     default |-> default]

\* ATable { name, columns }
ATable(name, columns) == [name |-> name, columns |-> columns]

\* impl PartialEq for AColumn: same name
AColumnEq(a, b) == a.name = b.name

\* impl PartialEq for ATable: same name
ATableEq(a, b) == a.name = b.name

\* Operation
AddTable(t) == <<"AddTable", t>>
RemoveTable(n) == <<"RemoveTable", n>>
AddColumn(n, c) == <<"AddColumn", n, c>>
RemoveColumn(n, c) == <<"RemoveColumn", n, c>>
ChangeColumn(n, o, c) == <<"ChangeColumn", n, o, c>>

----------------------------------------------------------------------------
(* Helpers *)

\* all iteration orders of a set
Perms(S) ==
    {s \in [1..Cardinality(S) -> S] : \A i, j \in 1..Cardinality(S) : i # j => s[i] # s[j]}

\* HashSet::difference: the elements of self (in self's order) not in other
Difference(self, order, other) ==
    SelectSeq(order, LAMBDA x : x \in DOMAIN self /\ x \notin DOMAIN other)

\* HashSet::intersection: the elements of self (in self's order) also in other
Intersection(self, order, other) ==
    SelectSeq(order, LAMBDA x : x \in DOMAIN self /\ x \in DOMAIN other)

RECURSIVE Concat(_)
Concat(ss) == IF ss = <<>> THEN <<>> ELSE Head(ss) \o Concat(Tail(ss))

RECURSIVE NumColumns(_)
NumColumns(db) ==
    IF DOMAIN db = {} THEN 0
    ELSE LET t == CHOOSE x \in DOMAIN db : TRUE
         IN Cardinality(DOMAIN db[t].columns)
            + NumColumns([x \in DOMAIN db \ {t} |-> db[x]])

----------------------------------------------------------------------------
(* diff *)

\* diff_table with the removal loop over new.columns.difference(&old.columns)
diff_table_swapped_removed(oldt, newt, oldOrder, newOrder) ==
    LET added == Difference(newt.columns, newOrder, oldt.columns)
        removed == Difference(newt.columns, newOrder, oldt.columns)
        both == Intersection(newt.columns, newOrder, oldt.columns)
        addOps == [i \in 1..Len(added) |-> AddColumn(newt.name, newt.columns[added[i]])]
        remOps == [i \in 1..Len(removed) |->
                     RemoveColumn(oldt.name, newt.columns[removed[i]].name)]
        chg(c) == IF AColumnEq(newt.columns[c], oldt.columns[c])
                  THEN <<>>
                  ELSE <<ChangeColumn(newt.name, oldt.columns[c], newt.columns[c])>>
        chgOps == Concat([i \in 1..Len(both) |-> chg(both[i])])
    IN addOps \o remOps \o chgOps

\* diff_table without the `if col == old_col { continue; }` test
diff_table_no_continue(oldt, newt, oldOrder, newOrder) ==
    LET added == Difference(newt.columns, newOrder, oldt.columns)
        removed == Difference(oldt.columns, oldOrder, newt.columns)
        both == Intersection(newt.columns, newOrder, oldt.columns)
        addOps == [i \in 1..Len(added) |-> AddColumn(newt.name, newt.columns[added[i]])]
        remOps == [i \in 1..Len(removed) |->
                     RemoveColumn(oldt.name, oldt.columns[removed[i]].name)]
        chgOps == [i \in 1..Len(both) |->
                     ChangeColumn(newt.name, oldt.columns[both[i]], newt.columns[both[i]])]
    IN addOps \o remOps \o chgOps

\* fn diff_table
diff_table(oldt, newt, oldOrder, newOrder) ==
    LET added == Difference(newt.columns, newOrder, oldt.columns)
        removed == Difference(oldt.columns, oldOrder, newt.columns)
        both == Intersection(newt.columns, newOrder, oldt.columns)
        addOps == [i \in 1..Len(added) |-> AddColumn(newt.name, newt.columns[added[i]])]
        remOps == [i \in 1..Len(removed) |->
                     RemoveColumn(oldt.name, oldt.columns[removed[i]].name)]
        chg(c) == IF AColumnEq(newt.columns[c], oldt.columns[c])
                  THEN <<>>
                  ELSE <<ChangeColumn(newt.name, oldt.columns[c], newt.columns[c])>>
        chgOps == Concat([i \in 1..Len(both) |-> chg(both[i])])
    IN addOps \o remOps \o chgOps

\* diff with the removal loop over new.tables.difference(&old.tables)
diff_swapped_removed(o, n, oldOrder, newOrder, oldColOrder, newColOrder) ==
    LET added == Difference(n, newOrder, o)
        removed == Difference(n, newOrder, o)
        both == Intersection(n, newOrder, o)
        addOps == [i \in 1..Len(added) |-> AddTable(n[added[i]])]
        remOps == [i \in 1..Len(removed) |-> RemoveTable(n[removed[i]].name)]
        colOps == Concat([i \in 1..Len(both) |->
                    diff_table(o[both[i]], n[both[i]],
                               oldColOrder[both[i]], newColOrder[both[i]])])
    IN addOps \o remOps \o colOps

\* diff with the removal loop placed after the loop over the common tables
diff_removals_last(o, n, oldOrder, newOrder, oldColOrder, newColOrder) ==
    LET added == Difference(n, newOrder, o)
        removed == Difference(o, oldOrder, n)
        both == Intersection(n, newOrder, o)
        addOps == [i \in 1..Len(added) |-> AddTable(n[added[i]])]
        remOps == [i \in 1..Len(removed) |-> RemoveTable(o[removed[i]].name)]
        colOps == Concat([i \in 1..Len(both) |->
                    diff_table(o[both[i]], n[both[i]],
                               oldColOrder[both[i]], newColOrder[both[i]])])
    IN addOps \o colOps \o remOps

\* fn diff
diff(o, n, oldOrder, newOrder, oldColOrder, newColOrder) ==
    LET added == Difference(n, newOrder, o)
        removed == Difference(o, oldOrder, n)
        both == Intersection(n, newOrder, o)
        addOps == [i \in 1..Len(added) |-> AddTable(n[added[i]])]
        remOps == [i \in 1..Len(removed) |-> RemoveTable(o[removed[i]].name)]
        colOps == Concat([i \in 1..Len(both) |->
                    diff_table(o[both[i]], n[both[i]],
                               oldColOrder[both[i]], newColOrder[both[i]])])
    IN addOps \o remOps \o colOps

----------------------------------------------------------------------------
(* Input universe of diff *)

DiffTableNames == {"users", "posts"}
ColNames == {"id", "age"}

ColDefs(c) ==
    IF c = "id"
    THEN {AColumn("id", Known("Int"), FALSE, TRUE, None),
          AColumn("id", Known("Text"), FALSE, TRUE, None)}
    ELSE {AColumn("age", Known("Int"), TRUE, FALSE, None),
          AColumn("age", Known("Int"), FALSE, FALSE, None),
          AColumn("age", Known("Int"), TRUE, TRUE, None),
          AColumn("age", Known("Int"), TRUE, FALSE, "0")}

AllColDefs == UNION {ColDefs(c) : c \in ColNames}

ColumnSets ==
    UNION {{f \in [S -> AllColDefs] : \A c \in S : f[c] \in ColDefs(c)} : S \in SUBSET ColNames}

TablesNamed(n) == {ATable(n, cs) : cs \in ColumnSets}

DiffSnapshots ==
    LET all == UNION {{f \in [S -> UNION {TablesNamed(n) : n \in S}] :
                          \A n \in S : f[n].name = n} : S \in SUBSET DiffTableNames}
    IN {db \in all : NumColumns(db) <= MaxColumns}

----------------------------------------------------------------------------
(* Input universe of resolve_types *)

ResolveTableNames == {"posts", "comments"}
SqlTypes == {"Int", "Text"}

\* the primary-key column of a table: concretely typed, or deferred to the
\* primary key of some table
PkDefs ==
    {AColumn("id", Known(t), FALSE, TRUE, None) : t \in SqlTypes}
    \cup {AColumn("id", Deferred(n), FALSE, TRUE, None) : n \in ResolveTableNames}

\* a reference column whose type is the primary-key type of another table
RefDefs == {AColumn("ref", Deferred(n), FALSE, FALSE, None) : n \in ResolveTableNames}

ResolveColumnSets ==
    {<<>>}
    \cup {("id" :> p) : p \in PkDefs}
    \cup {("ref" :> r) : r \in RefDefs}
    \cup {("id" :> p) @@ ("ref" :> r) : p \in PkDefs, r \in RefDefs}

ResolveSnapshots ==
    UNION {{f \in [S -> {ATable(n, cs) : n \in S, cs \in ResolveColumnSets}] :
               \A n \in S : f[n].name = n} : S \in SUBSET ResolveTableNames}

----------------------------------------------------------------------------
(* Initial states: one per entry point and input *)

InitDiff ==
    /\ prog = "diff" /\ pc = "diff"
    /\ old \in DiffSnapshots /\ new \in DiffSnapshots /\ ops = <<>>
    /\ adb = <<>> /\ adb0 = <<>>
    /\ types = <<>> /\ changed = FALSE /\ todo = {}
    /\ call = NoCall /\ depth = 0 /\ ret = <<>>
    /\ chain = 0 /\ to_apply = <<>> /\ idx = 0 /\ applied = {} /\ attempted = <<>>
    /\ result = NoResult /\ exit_code = -1 /\ stderr = <<>>

\* resolve_types, lines 82-83: a fresh resolver, changed = true
InitResolve ==
    /\ prog = "resolve" /\ pc = "while"
    /\ old = <<>> /\ new = <<>> /\ ops = <<>>
    /\ adb \in ResolveSnapshots /\ adb0 = adb
    /\ types = <<>> /\ changed = TRUE /\ todo = {}
    /\ call = NoCall /\ depth = 0 /\ ret = <<>>
    /\ chain = 0 /\ to_apply = <<>> /\ idx = 0 /\ applied = {} /\ attempted = <<>>
    /\ result = NoResult /\ exit_code = -1 /\ stderr = <<>>

\* TypeResolver::new
InitResolver ==
    /\ prog = "resolver" /\ pc = "new"
    /\ old = <<>> /\ new = <<>> /\ ops = <<>>
    /\ adb = <<>> /\ adb0 = <<>>
    /\ types = <<>> /\ changed = FALSE /\ todo = {}
    /\ call = NoCall /\ depth = 0 /\ ret = <<>>
    /\ chain = 0 /\ to_apply = <<>> /\ idx = 0 /\ applied = {} /\ attempted = <<>>
    /\ result = NoResult /\ exit_code = -1 /\ stderr = <<>>

\* the migration store: a creation chain 1..n of which a prefix is applied
InitMigrate ==
    /\ prog = "migrate" /\ pc = "migrate"
    /\ old = <<>> /\ new = <<>> /\ ops = <<>>
    /\ adb = <<>> /\ adb0 = <<>>
    /\ types = <<>> /\ changed = FALSE /\ todo = {}
    /\ call = NoCall /\ depth = 0 /\ ret = <<>>
    /\ chain \in 0..MaxMigrations
    /\ \E k \in 0..chain : applied = 1..k
    /\ to_apply = <<>> /\ idx = 0 /\ attempted = <<>>
    /\ result = NoResult /\ exit_code = -1 /\ stderr = <<>>

Init == InitDiff \/ InitResolve \/ InitResolver \/ InitMigrate

----------------------------------------------------------------------------
(* diff *)

DiffVars == <<old, new, ops>>
ResolveVars == <<adb, adb0, types, changed, todo, call, depth, ret>>
MigrateVars == <<chain, to_apply, idx, applied, attempted, result, exit_code, stderr>>

\* a call of diff(&old, &new); the four HashSet iteration orders are arbitrary
Diff ==
    /\ prog = "diff" /\ pc = "diff"
    /\ \E oldOrder \in Perms(DiffTableNames), newOrder \in Perms(DiffTableNames),
          oldColOrder \in [DiffTableNames -> Perms(ColNames)],
          newColOrder \in [DiffTableNames -> Perms(ColNames)] :
          ops' = diff(old, new, oldOrder, newOrder, oldColOrder, newColOrder)
    /\ pc' = "done"
    /\ UNCHANGED <<prog, old, new, ResolveVars, MigrateVars>>

----------------------------------------------------------------------------
(* TypeResolver and resolve_types *)

\* TypeResolver::find_type: <<t>> for Some(t), <<>> for None
find_type(tys, key) == IF key \in DOMAIN tys THEN <<tys[key]>> ELSE <<>>

\* DeferredSqlType::resolve: <<t>> for Ok(t), <<>> for Err(UnknownSqlType)
resolve(sqltype, tys) ==
    IF sqltype.kind = "Known" THEN <<sqltype.of>> ELSE find_type(tys, sqltype.of)

\* AColumn::resolve_type: the Result of resolve is dropped, self is not assigned
resolve_type(c, tys) == LET dropped == resolve(c.sqltype, tys) IN c

\* AColumn::sqltype: <<t>> for Ok(t), <<>> for Err(UnknownSqlType)
sqltype(c) == IF c.sqltype.kind = "Known" THEN <<c.sqltype.of>> ELSE <<>>

\* ATable::get_pk: the columns find(|c| c.is_pk()) can yield (the first pk
\* column in iteration order); empty for Err(NoPK)
get_pk(t) == {c \in DOMAIN t.columns : t.columns[c].pk}

\* resolve_types, lines 92-99: every column of the table mapped through resolve_type
map_columns(t, tys) ==
    [t EXCEPT !.columns = [c \in DOMAIN t.columns |-> resolve_type(t.columns[c], tys)]]

\* resolve_types, lines 84-85 and 102: the while test, `changed = false`, Ok(())
ResolveWhile ==
    /\ prog = "resolve" /\ pc = "while"
    /\ IF changed
       THEN /\ changed' = FALSE
            /\ todo' = DOMAIN adb
            /\ pc' = "for"
       ELSE /\ pc' = "ok"
            /\ UNCHANGED <<changed, todo>>
    /\ UNCHANGED <<prog, DiffVars, adb, adb0, types, call, depth, ret, MigrateVars>>

\* resolve_types, lines 86-99: one iteration of the for loop, up to the call
\* of insert_pk when the primary key's type is known
ResolveTable ==
    /\ prog = "resolve" /\ pc = "for"
    /\ \E t \in todo :
          IF get_pk(adb[t]) = {}
          THEN /\ pc' = "err"
               /\ UNCHANGED <<adb, todo, call, depth>>
          ELSE \E c \in get_pk(adb[t]) :
                  LET pktype == sqltype(adb[t].columns[c])
                  IN IF pktype # <<>>
                     THEN /\ call' = [fn |-> "insert_pk", key |-> adb[t].name,
                                      ty |-> pktype[1]]
                          /\ depth' = 1
                          /\ pc' = "insert"
                          /\ UNCHANGED <<adb, todo>>
                     ELSE /\ adb' = [adb EXCEPT ![t] = map_columns(adb[t], types)]
                          /\ todo' = todo \ {t}
                          /\ UNCHANGED <<pc, call, depth>>
    /\ UNCHANGED <<prog, DiffVars, adb0, types, changed, ret, MigrateVars>>

\* resolve_types, line 100: the for loop has visited every table
ResolveForEnd ==
    /\ prog = "resolve" /\ pc = "for" /\ todo = {}
    /\ pc' = "while"
    /\ UNCHANGED <<prog, DiffVars, ResolveVars, MigrateVars>>

\* a caller invokes TypeResolver::insert on a fresh resolver
CallInsert ==
    /\ prog = "resolver" /\ pc = "new"
    /\ \E k \in ResolveTableNames, ty \in SqlTypes :
          call' = [fn |-> "insert", key |-> k, ty |-> ty]
    /\ depth' = 1
    /\ pc' = "insert"
    /\ UNCHANGED <<prog, DiffVars, adb, adb0, types, changed, todo, ret, MigrateVars>>

\* a caller invokes TypeResolver::insert_pk on a fresh resolver
CallInsertPk ==
    /\ prog = "resolver" /\ pc = "new"
    /\ \E k \in ResolveTableNames, ty \in SqlTypes :
          call' = [fn |-> "insert_pk", key |-> k, ty |-> ty]
    /\ depth' = 1
    /\ pc' = "insert"
    /\ UNCHANGED <<prog, DiffVars, adb, adb0, types, changed, todo, ret, MigrateVars>>

\* TypeResolver::insert, one frame.  contains_key: the innermost frame returns
\* false, every frame above it returns true, and the caller goes on (line 89
\* and lines 92-99 of resolve_types).  Otherwise the frame calls insert again
\* with the same arguments; the map is not written, so the recursion only
\* ends when the stack is exhausted and the process aborts.
Insert ==
    /\ pc = "insert"
    /\ IF call.key \in DOMAIN types
       THEN /\ ret' = <<depth > 1>>
            /\ depth' = 0
            /\ IF prog = "resolve"
               THEN /\ changed' = (depth > 1)
                    /\ adb' = [adb EXCEPT ![call.key] = map_columns(adb[call.key], types)]
                    /\ todo' = todo \ {call.key}
                    /\ pc' = "for"
               ELSE /\ pc' = "returned"
                    /\ UNCHANGED <<changed, adb, todo>>
       ELSE /\ IF depth < MaxStack
               THEN /\ depth' = depth + 1
                    /\ pc' = pc
               ELSE /\ pc' = "overflow"
                    /\ depth' = depth
            /\ UNCHANGED <<ret, changed, adb, todo>>
    /\ UNCHANGED <<prog, DiffVars, adb0, types, call, MigrateVars>>

----------------------------------------------------------------------------
(* migrate *)

\* Migrations::unapplied_migrations: the migrations of the creation chain not
\* marked applied, in chain order
unapplied_migrations(n, done) == SelectSeq([i \in 1..n |-> i], LAMBDA m : m \notin done)

\* Migration::apply: on success the migration is marked applied, on failure
\* it is left unmarked
apply(m, ok, done) == IF ok THEN done \cup {m} ELSE done

\* migrate, lines 160-163: load the connection spec, connect, list the
\* unapplied migrations; each may fail and `?` returns the error
MigrateStart ==
    /\ prog = "migrate" /\ pc = "migrate"
    /\ \E ok \in BOOLEAN :
          IF ok
          THEN /\ to_apply' = unapplied_migrations(chain, applied)
               /\ idx' = 1
               /\ pc' = "for"
               /\ UNCHANGED result
          ELSE /\ result' = Err(0)
               /\ pc' = "handle_error"
               /\ UNCHANGED <<to_apply, idx>>
    /\ UNCHANGED <<prog, DiffVars, ResolveVars, chain, applied, attempted, exit_code, stderr>>

\* the for loop of migrate with the error of apply dropped instead of returned
MigrateApply_error_dropped ==
    /\ prog = "migrate" /\ pc = "for" /\ idx <= Len(to_apply)
    /\ attempted' = Append(attempted, to_apply[idx])
    /\ \E ok \in BOOLEAN : applied' = apply(to_apply[idx], ok, applied)
    /\ idx' = idx + 1
    /\ UNCHANGED <<prog, pc, result, DiffVars, ResolveVars, chain, to_apply, exit_code, stderr>>

\* migrate, lines 164-167: one iteration of the for loop
MigrateApply ==
    /\ prog = "migrate" /\ pc = "for" /\ idx <= Len(to_apply)
    /\ attempted' = Append(attempted, to_apply[idx])
    /\ \E ok \in BOOLEAN :
          /\ applied' = apply(to_apply[idx], ok, applied)
          /\ IF ok
             THEN /\ idx' = idx + 1
                  /\ UNCHANGED <<pc, result>>
             ELSE /\ result' = Err(to_apply[idx])
                  /\ pc' = "handle_error"
                  /\ UNCHANGED idx
    /\ UNCHANGED <<prog, DiffVars, ResolveVars, chain, to_apply, exit_code, stderr>>

\* migrate, line 168: Ok(())
MigrateReturn ==
    /\ prog = "migrate" /\ pc = "for" /\ idx > Len(to_apply)
    /\ result' = Ok
    /\ pc' = "handle_error"
    /\ UNCHANGED <<prog, DiffVars, ResolveVars, chain, to_apply, idx, applied, attempted,
                   exit_code, stderr>>

\* handle_error, then the end of main
handle_error ==
    /\ prog = "migrate" /\ pc = "handle_error"
    /\ IF result.tag = "Err"
       THEN /\ stderr' = <<result.cause>>
            /\ exit_code' = 1
       ELSE /\ exit_code' = 0
            /\ UNCHANGED stderr
    /\ pc' = "exit"
    /\ UNCHANGED <<prog, DiffVars, ResolveVars, chain, to_apply, idx, applied, attempted,
                   result>>

----------------------------------------------------------------------------

Next ==
    \/ Diff
    \/ ResolveWhile
    \/ ResolveTable
    \/ ResolveForEnd
    \/ CallInsert
    \/ CallInsertPk
    \/ Insert
    \/ MigrateStart
    \/ MigrateApply
    \/ MigrateReturn
    \/ handle_error

Spec == Init /\ [][Next]_vars

----------------------------------------------------------------------------
(* Reading an operation sequence *)

OpKind(op) == op[1]
IsTableOp(op) == OpKind(op) \in {"AddTable", "RemoveTable"}
IsColumnOp(op) == OpKind(op) \in {"AddColumn", "RemoveColumn", "ChangeColumn"}

\* the table an operation names
OpTable(op) == IF OpKind(op) = "AddTable" THEN op[2].name ELSE op[2]

\* the column a column operation names
OpColumn(op) == IF OpKind(op) = "RemoveColumn" THEN op[3] ELSE op[3].name

\* positions of the column operations naming column c of table t
ColumnOpsAt(t, c) ==
    {i \in DOMAIN ops : IsColumnOp(ops[i]) /\ OpTable(ops[i]) = t /\ OpColumn(ops[i]) = c}

\* positions of the operations of kind k naming table t
TableOpsAt(k, t) == {i \in DOMAIN ops : OpKind(ops[i]) = k /\ OpTable(ops[i]) = t}

\* field-for-field equality of two column definitions
SameFields(a, b) ==
    /\ a.sqltype = b.sqltype
    /\ a.nullable = b.nullable
    /\ a.pk = b.pk
    /\ a.default = b.default

CommonTables == DOMAIN old \cap DOMAIN new
CommonColumns(t) == DOMAIN old[t].columns \cap DOMAIN new[t].columns

\* the effect of one operation on a snapshot
ApplyOp(db, op) ==
    LET t == OpTable(op)
    IN CASE OpKind(op) = "AddTable" -> (t :> op[2]) @@ db
         [] OpKind(op) = "RemoveTable" -> [x \in DOMAIN db \ {t} |-> db[x]]
         [] OpKind(op) = "AddColumn" ->
               [db EXCEPT ![t].columns = (op[3].name :> op[3]) @@ @]
         [] OpKind(op) = "RemoveColumn" ->
               [db EXCEPT ![t].columns = [c \in DOMAIN @ \ {op[3]} |-> @[c]]]
         [] OpKind(op) = "ChangeColumn" ->
               [db EXCEPT ![t].columns = (op[4].name :> op[4]) @@
                                         [c \in DOMAIN @ \ {op[3].name} |-> @[c]]]

RECURSIVE ApplyOps(_, _)
ApplyOps(db, os) == IF os = <<>> THEN db ELSE ApplyOps(ApplyOp(db, Head(os)), Tail(os))

----------------------------------------------------------------------------
(* Claims about diff *)

\* C1: for every column present in both versions of a table present in both
\* snapshots, diff holds ChangeColumn(table, old_def, new_def) when type,
\* nullability, primary-key flag or default differ, and no operation for that
\* column when all four are the same.
C1_ChangeColumnIffFieldsDiffer ==
    (prog = "diff" /\ pc = "done") =>
        \A t \in CommonTables : \A c \in CommonColumns(t) :
            LET o == old[t].columns[c]
                n == new[t].columns[c]
            IN IF SameFields(o, n)
               THEN ColumnOpsAt(t, c) = {}
               ELSE \E i \in ColumnOpsAt(t, c) :
                       /\ OpKind(ops[i]) = "ChangeColumn"
                       /\ ops[i] = ChangeColumn(t, o, n)

\* C2: applying the operations of diff(old, new), in order, to old gives a
\* snapshot equal to new field for field.
C2_RoundTrip ==
    (prog = "diff" /\ pc = "done") => ApplyOps(old, ops) = new

\* C5: diff holds exactly one AddTable, carrying the whole new definition, per
\* table only in new, exactly one RemoveTable per table only in old, no other
\* AddTable or RemoveTable, and no column operation naming such a table.
C5_TableAdditionsAndRemovals ==
    (prog = "diff" /\ pc = "done") =>
        /\ \A t \in DOMAIN new \ DOMAIN old :
              /\ Cardinality(TableOpsAt("AddTable", t)) = 1
              /\ \A i \in TableOpsAt("AddTable", t) : ops[i][2] = new[t]
        /\ \A t \in DOMAIN old \ DOMAIN new :
              Cardinality(TableOpsAt("RemoveTable", t)) = 1
        /\ \A i \in DOMAIN ops :
              /\ OpKind(ops[i]) = "AddTable" => OpTable(ops[i]) \in DOMAIN new \ DOMAIN old
              /\ OpKind(ops[i]) = "RemoveTable" => OpTable(ops[i]) \in DOMAIN old \ DOMAIN new
              /\ IsColumnOp(ops[i]) => OpTable(ops[i]) \in CommonTables

\* Scenario B: old = {users, posts}, new = {users} unchanged
C5_Witness ==
    /\ prog = "diff" /\ pc = "done"
    /\ DOMAIN old = {"users", "posts"} /\ DOMAIN new = {"users"}
    /\ new["users"] = old["users"]
    /\ DOMAIN old["users"].columns = {"id", "age"}
    /\ ops = <<RemoveTable("posts")>>

C7_DiffOfSelfIsEmpty ==
    (prog = "diff" /\ pc = "done" /\ old = new) => ops = <<>>

C7_Witness ==
    /\ prog = "diff" /\ pc = "done" /\ old = new
    /\ DOMAIN old = {"users", "posts"}
    /\ NumColumns(old) = MaxColumns
    /\ ops = <<>>

\* C8: in the sequence diff returns every AddTable and RemoveTable comes
\* before every column operation, and no column operation of another table
\* lies between two column operations of one table.
C8_Grouping ==
    (prog = "diff" /\ pc = "done") =>
        /\ \A i, j \in DOMAIN ops :
              (IsTableOp(ops[i]) /\ IsColumnOp(ops[j])) => i < j
        /\ \A i, j, k \in DOMAIN ops :
              (/\ i < k /\ k < j
               /\ IsColumnOp(ops[i]) /\ IsColumnOp(ops[j]) /\ IsColumnOp(ops[k])
               /\ OpTable(ops[i]) = OpTable(ops[j]))
              => OpTable(ops[k]) = OpTable(ops[i])

\* column operations of two tables, two of them of one table
C8_Witness ==
    /\ prog = "diff" /\ pc = "done"
    /\ Len(ops) = 3
    /\ IsColumnOp(ops[1]) /\ IsColumnOp(ops[2]) /\ IsColumnOp(ops[3])
    /\ OpTable(ops[1]) = OpTable(ops[2])
    /\ OpTable(ops[3]) # OpTable(ops[1])

----------------------------------------------------------------------------
(* Claims about type resolution *)

\* every table of the snapshot has a primary-key column
AllHavePk(db) == \A t \in DOMAIN db : get_pk(db[t]) # {}

\* the steps of a run of resolve_types
ResolveNext == ResolveWhile \/ ResolveTable \/ ResolveForEnd \/ Insert

\* the concretely known primary-key types of table T of the snapshot at entry
KnownPkTypes(T) ==
    IF T \in DOMAIN adb0
    THEN {adb0[T].columns[c].sqltype.of :
             c \in {x \in get_pk(adb0[T]) : adb0[T].columns[x].sqltype.kind = "Known"}}
    ELSE {}

\* the columns (table, column, pk type) that resolution has to make concrete
Resolvable ==
    {<<t, c, ty>> \in (DOMAIN adb0) \X {"id", "ref"} \X SqlTypes :
        /\ c \in DOMAIN adb0[t].columns
        /\ adb0[t].columns[c].sqltype.kind = "Deferred"
        /\ ty \in KnownPkTypes(adb0[t].columns[c].sqltype.of)}

\* C3: once resolve_types is over, every column that was Deferred(PK(T)),
\* with T a table of the snapshot whose primary key has the known type t, has
\* type Known(t).
C3_DeferredColumnsResolved ==
    (prog = "resolve" /\ AllHavePk(adb0) /\ ~ENABLED ResolveNext) =>
        \A r \in Resolvable : adb[r[1]].columns[r[2]].sqltype = Known(r[3])

\* the primary-key types of the snapshot at entry depend on each other in a cycle
PkCycle ==
    \E t \in DOMAIN adb0 : \E u \in DOMAIN adb0 :
        /\ adb0[t].columns["id"].sqltype = Deferred(u)
        /\ adb0[u].columns["id"].sqltype = Deferred(t)

\* C4: on a snapshot in which every table has a primary key resolve_types
\* terminates: a run that can go no further has returned Ok(()), and with a
\* cycle of primary-key types the cyclic columns are still Deferred.
C4_ResolveTerminates ==
    (prog = "resolve" /\ AllHavePk(adb0)) =>
        /\ pc = "ok" \/ ENABLED ResolveNext
        /\ (pc = "ok" /\ PkCycle) => adb = adb0

\* C10: insert(key, ty) on a key the resolver does not hold returns true and
\* leaves the key mapped to ty (the resolver is fresh, so the key is absent).
C10_InsertRecordsAndReturns ==
    (prog = "resolver" /\ call.fn # "none") =>
        \/ ENABLED Insert
        \/ /\ pc = "returned"
           /\ ret = <<TRUE>>
           /\ types = (call.key :> call.ty)

----------------------------------------------------------------------------
(* Claims about migrate *)

\* C9: migrate applies the unapplied migrations one at a time in the order of
\* the unapplied list; when apply fails the run stops with the error
\* surfaced: those applied before stay applied, the failing one is not marked
\* applied, and no later one is attempted.
C9_MigrateStopsAtFirstFailure ==
    prog = "migrate" =>
        /\ Len(attempted) <= Len(to_apply)
        /\ attempted = SubSeq(to_apply, 1, Len(attempted))
        /\ \A m \in applied : m \in 1..chain
        /\ \A i \in 1..(Len(attempted) - 1) : attempted[i] \in applied
        /\ (result.tag = "Err" /\ result.cause # 0) =>
              /\ attempted # <<>>
              /\ attempted[Len(attempted)] = result.cause
              /\ result.cause \notin applied
        /\ result.tag # "Err" => \A i \in DOMAIN attempted : attempted[i] \in applied
        /\ pc = "exit" =>
              IF \A i \in DOMAIN to_apply : to_apply[i] \in applied
              THEN result.tag = "Err" \/ (exit_code = 0 /\ stderr = <<>>)
              ELSE exit_code = 1 /\ stderr = <<result.cause>>

\* the second of three unapplied migrations fails
C9_Witness ==
    /\ prog = "migrate" /\ pc = "exit"
    /\ to_apply = <<1, 2, 3>>
    /\ attempted = <<1, 2>>
    /\ applied = {1}
    /\ exit_code = 1
    /\ stderr = <<2>>

====
